---- MODULE Spec2Model ----
(***************************************************************************)
(* Model of src/src/App.tsx: the App component's React state, the live     *)
(* voice session handlers (startLiveSession and the callbacks it registers *)
(* with ai.live.connect, stopLiveSession) and the onboarding wizard        *)
(* handlers.  Every handler is one atomic action: a browser event handler  *)
(* runs to completion, and an `await` is a point where the handler is      *)
(* suspended and other events may run.                                     *)
(*                                                                         *)
(* The transport (ai.live.connect) and the browser audio stack are         *)
(* external.  Their events are the actions named after the callbacks the   *)
(* code registers; the transport delivers at most one terminal event       *)
(* (onclose or onerror) per connection, and nothing after it.              *)
(***************************************************************************)
EXTENDS Integers, Sequences, FiniteSets, TLC

\* ---- bounds of the model ----
MaxSessions == 2      \* ai.live.connect calls explored
MaxTicks == 2         \* onaudioprocess callbacks explored
MaxMsgs == 2          \* inbound messages explored
LiveTicks == 1        \* onaudioprocess callbacks explored by LiveSpec
SampleMax == 3        \* largest sample magnitude explored, in 1/SampleDen
MaxGen == 2           \* generateCareerRoadmap requests explored
WizardGen == 1        \* generateCareerRoadmap requests explored by WizardSpec
MaxInterests == 1     \* entries of COMMON_INTERESTS explored

\* ---- program constants ----
NumQuestions == 5     \* DISCOVERY_QUESTIONS.length
PcmScale == 32767     \* 0x7FFF
SampleDen == 2        \* a sample k stands for the float k / SampleDen

Steps == {"welcome", "login", "dashboard", "basic-info", "interests",
          "discovery", "generating", "results"}

NoSession == 0                      \* the `null` of useState<LiveSession | null>
Sessions == 1..MaxSessions          \* the LiveSession objects, in connect order
Interests == 1..MaxInterests
Questions == 1..NumQuestions        \* q1..q5
NoAnswer == ""
Options == {"a"}                    \* an option of a discovery question
GoalTexts == {"", "g"}              \* contents of a goal input: empty or not
ConnectedBanner == "Connected! Start speaking..."
Newline == "\n"
\* modelTurn.parts of an inbound message, each part given by its text
\* ("" is a part without text, or with an empty one: both are falsy)
Messages == {<< >>, <<"Hi">>, <<" there">>, <<"", " there">>, <<"!", "?">>}
MimeType == "audio/pcm;rate=16000"
\* the values of inputBuffer.getChannelData(0) explored, and the blocks
\* made of them (one sample per block)
Samples == (0 - SampleMax)..SampleMax
Blocks == {<<k>> : k \in Samples}
SilentBlock == <<0>>

InitialUserData ==
    [shortTermGoal |-> "", longTermGoal |-> "", interests |-> {},
     discoveryAnswers |-> [q \in Questions |-> NoAnswer]]

VARIABLES
    step,            \* useState<Step>
    userData,        \* useState<UserData>: the fields the handlers read
    discoveryIndex,  \* useState(0), 0-based index into DISCOVERY_QUESTIONS
    results,         \* useState<CareerOption[]>: 0 = [], n = data of request n
    isGenerating,    \* useState(false)
    isLiveActive,    \* useState(false)
    liveTranscript,  \* useState<string>: the string as a sequence of pieces
    session,         \* useState<LiveSession | null>
    nConnects,       \* number of ai.live.connect calls issued
    conn,            \* per connection: state of the transport
    settled,         \* per connection: `await ai.live.connect` has returned
    capture,         \* per connection: state of its getUserMedia pipeline
    closeCalled,     \* per connection: close() was called on its handle
    sent,            \* sendRealtimeInput calls, in order: the session, the
                     \* payload, and the number of the frame it carries
    captured,        \* onaudioprocess events delivered, in order: the
                     \* session and the sample block of each
    nMsgs,           \* number of inbound messages delivered
    inbound,         \* the messages delivered since the latest onopen
    nGen,            \* number of generateCareerRoadmap calls issued
    genPending       \* requests in flight: [id, profile]

wizardVars == <<step, userData, discoveryIndex, results, isGenerating,
                nGen, genPending>>
liveVars == <<isLiveActive, liveTranscript, session,
              nConnects, conn, settled, capture, closeCalled, sent, nMsgs,
              captured, inbound>>
vars == <<step, userData, discoveryIndex, results, isGenerating,
          nGen, genPending,
          isLiveActive, liveTranscript, session,
          nConnects, conn, settled, capture, closeCalled, sent, nMsgs,
          captured, inbound>>

ConnStates == {"unused", "connecting", "connectFailed", "open", "closing",
               "closed", "error"}
CaptureStates == {"none", "requested", "running", "denied"}

Init ==
    /\ step = "welcome"
    /\ userData = InitialUserData
    /\ discoveryIndex = 0
    /\ results = 0
    /\ isGenerating = FALSE
    /\ isLiveActive = FALSE
    /\ liveTranscript = << >>
    /\ session = NoSession
    /\ nConnects = 0
    /\ conn = [s \in Sessions |-> "unused"]
    /\ settled = [s \in Sessions |-> FALSE]
    /\ capture = [s \in Sessions |-> "none"]
    /\ closeCalled = [s \in Sessions |-> FALSE]
    /\ sent = << >>
    /\ captured = << >>
    /\ nMsgs = 0
    /\ inbound = << >>
    /\ nGen = 0
    /\ genPending = {}

\* ======================= live voice session ==========================

\* startLiveSession refusing to start once a session has ended
startLiveSessionOnce ==
    /\ \A s \in Sessions : conn[s] \notin {"connectFailed", "closed", "error"}
    /\ nConnects < MaxSessions
    /\ nConnects' = nConnects + 1
    /\ conn' = [conn EXCEPT ![nConnects + 1] = "connecting"]
    /\ UNCHANGED <<isLiveActive, liveTranscript, session,
                   settled, capture, closeCalled, sent, nMsgs,
                   captured, inbound>>

\* startLiveSession up to its `await`: ai.live.connect is called
startLiveSession ==
    /\ nConnects < MaxSessions
    /\ nConnects' = nConnects + 1
    /\ conn' = [conn EXCEPT ![nConnects + 1] = "connecting"]
    /\ UNCHANGED <<isLiveActive, liveTranscript, session,
                   settled, capture, closeCalled, sent, nMsgs,
                   captured, inbound>>

\* the connect promise rejects: the catch block only logs
connectRejected(s) ==
    /\ conn[s] = "connecting"
    /\ conn' = [conn EXCEPT ![s] = "connectFailed"]
    /\ UNCHANGED <<isLiveActive, liveTranscript, session,
                   nConnects, settled, capture, closeCalled, sent, nMsgs,
                   captured, inbound>>
    /\ UNCHANGED wizardVars

\* callbacks.onopen: status on, banner, getUserMedia requested
onopen(s) ==
    /\ conn[s] = "connecting"
    /\ conn' = [conn EXCEPT ![s] = "open"]
    /\ isLiveActive' = TRUE
    /\ liveTranscript' = <<ConnectedBanner>>
    /\ capture' = [capture EXCEPT ![s] = "requested"]
    /\ inbound' = << >>
    /\ UNCHANGED <<session, nConnects, settled, closeCalled, sent, nMsgs,
                   captured>>
    /\ UNCHANGED wizardVars

\* `await ai.live.connect` returns after the connection opened:
\* liveSession is bound and setSession(liveSession) runs
connectResolved(s) ==
    /\ conn[s] \in {"open", "closing", "closed", "error"}
    /\ ~settled[s]
    /\ settled' = [settled EXCEPT ![s] = TRUE]
    /\ session' = s
    /\ UNCHANGED <<isLiveActive, liveTranscript,
                   nConnects, conn, capture, closeCalled, sent, nMsgs,
                   captured, inbound>>
    /\ UNCHANGED wizardVars

\* getUserMedia resolves: the .then callback builds the AudioContext graph
\* and arms processor.onaudioprocess
getUserMediaResolved(s) ==
    /\ capture[s] = "requested"
    /\ capture' = [capture EXCEPT ![s] = "running"]
    /\ UNCHANGED <<isLiveActive, liveTranscript, session,
                   nConnects, conn, settled, closeCalled, sent, nMsgs,
                   captured, inbound>>
    /\ UNCHANGED wizardVars

\* getUserMedia rejects: the promise has no rejection handler
getUserMediaRejected(s) ==
    /\ capture[s] = "requested"
    /\ capture' = [capture EXCEPT ![s] = "denied"]
    /\ UNCHANGED <<isLiveActive, liveTranscript, session,
                   nConnects, conn, settled, closeCalled, sent, nMsgs,
                   captured, inbound>>
    /\ UNCHANGED wizardVars

\* Math.max(-1, Math.min(1, x)) on the sample k / SampleDen
Clamp(k) ==
    IF k > SampleDen THEN SampleDen
    ELSE IF k < 0 - SampleDen THEN 0 - SampleDen
    ELSE k

\* the integer part of a / b, rounded toward zero (b > 0)
TruncDiv(a, b) == IF a >= 0 THEN a \div b ELSE 0 - ((0 - a) \div b)

\* the store into an Int16Array element: truncation, then modulo 2^16
ToInt16(x) == ((x + 32768) % 65536) - 32768

\* the conversion without the clamp
PcmSampleUnclamped(k) == ToInt16(TruncDiv(k * PcmScale, SampleDen))

\* pcmData[i] = Math.max(-1, Math.min(1, inputData[i])) * 0x7FFF
PcmSample(k) == ToInt16(TruncDiv(Clamp(k) * PcmScale, SampleDen))

PcmData(block) == [i \in 1..Len(block) |-> PcmSample(block[i])]

\* new Uint8Array(pcmData.buffer): the two bytes of each element, low first
Uint8View(pcm) ==
    [j \in 1..(2 * Len(pcm)) |->
        LET u == pcm[(j + 1) \div 2] % 65536
        IN  IF j % 2 = 1 THEN u % 256 ELSE u \div 256]

\* btoa(String.fromCharCode(...bytes)): the base64 digits as numbers 0..63,
\* 64 for the padding '='
RECURSIVE Btoa(_)
Btoa(bytes) ==
    IF Len(bytes) = 0 THEN << >>
    ELSE IF Len(bytes) = 1 THEN
        <<bytes[1] \div 4, (bytes[1] % 4) * 16, 64, 64>>
    ELSE IF Len(bytes) = 2 THEN
        <<bytes[1] \div 4, (bytes[1] % 4) * 16 + bytes[2] \div 16,
          (bytes[2] % 16) * 4, 64>>
    ELSE
        <<bytes[1] \div 4, (bytes[1] % 4) * 16 + bytes[2] \div 16,
          (bytes[2] % 16) * 4 + bytes[3] \div 64, bytes[3] % 64>>
        \o Btoa(SubSeq(bytes, 4, Len(bytes)))

\* the number of frames captured so far for session s
FramesOf(s) == Cardinality({i \in 1..Len(captured) : captured[i].s = s})

\* onaudioprocess with an encoder that keeps the previous block in its
\* buffer and encodes it again in front of the current one
onaudioprocessBuffered(s, block) ==
    /\ capture[s] = "running"
    /\ Len(captured) < MaxTicks
    /\ captured' = Append(captured, [s |-> s, block |-> block])
    /\ sent' = IF settled[s]
               THEN Append(sent, [s |-> s, n |-> FramesOf(s),
                                  pcm |-> PcmData(block),
                                  data |-> Btoa(Uint8View(PcmData(
                                      IF captured = << >> THEN block
                                      ELSE captured[Len(captured)].block
                                           \o block))),
                                  mimeType |-> MimeType])
               ELSE sent
    /\ UNCHANGED <<isLiveActive, liveTranscript, session,
                   nConnects, conn, settled, capture, closeCalled, nMsgs,
                   inbound>>
    /\ UNCHANGED wizardVars

\* processor.onaudioprocess: one capture tick; the block is converted and
\* encoded, then sent on the liveSession of the closure.  Until the connect
\* promise has resolved that const is uninitialised: the tick is consumed,
\* the call throws a ReferenceError and nothing is sent
onaudioprocess(s, block) ==
    /\ capture[s] = "running"
    /\ Len(captured) < MaxTicks
    /\ captured' = Append(captured, [s |-> s, block |-> block])
    /\ sent' = IF settled[s]
               THEN Append(sent, [s |-> s, n |-> FramesOf(s),
                                  pcm |-> PcmData(block),
                                  data |-> Btoa(Uint8View(PcmData(block))),
                                  mimeType |-> MimeType])
               ELSE sent
    /\ UNCHANGED <<isLiveActive, liveTranscript, session,
                   nConnects, conn, settled, capture, closeCalled, nMsgs,
                   inbound>>
    /\ UNCHANGED wizardVars

\* onmessage appending to the transcript of the render that created the
\* handler (the empty one) instead of the current one
onmessageStale(s, parts) ==
    /\ conn[s] = "open"
    /\ nMsgs < MaxMsgs
    /\ nMsgs' = nMsgs + 1
    /\ liveTranscript' =
          IF Len(parts) > 0 /\ parts[1] # ""
          THEN <<Newline, parts[1]>>
          ELSE liveTranscript
    /\ inbound' = Append(inbound, parts)
    /\ UNCHANGED <<isLiveActive, session,
                   nConnects, conn, settled, capture, closeCalled, sent,
                   captured>>
    /\ UNCHANGED wizardVars

\* callbacks.onmessage: only parts[0].text is read
onmessage(s, parts) ==
    /\ conn[s] = "open"
    /\ nMsgs < MaxMsgs
    /\ nMsgs' = nMsgs + 1
    /\ liveTranscript' =
          IF Len(parts) > 0 /\ parts[1] # ""
          THEN liveTranscript \o <<Newline, parts[1]>>
          ELSE liveTranscript
    /\ inbound' = Append(inbound, parts)
    /\ UNCHANGED <<isLiveActive, session,
                   nConnects, conn, settled, capture, closeCalled, sent,
                   captured>>
    /\ UNCHANGED wizardVars

\* callbacks.onclose
onclose(s) ==
    /\ conn[s] \in {"open", "closing"}
    /\ conn' = [conn EXCEPT ![s] = "closed"]
    /\ isLiveActive' = FALSE
    /\ session' = NoSession
    /\ UNCHANGED <<liveTranscript,
                   nConnects, settled, capture, closeCalled, sent, nMsgs,
                   captured, inbound>>
    /\ UNCHANGED wizardVars

\* callbacks.onerror
onerror(s) ==
    /\ conn[s] = "open"
    /\ conn' = [conn EXCEPT ![s] = "error"]
    /\ isLiveActive' = FALSE
    /\ UNCHANGED <<liveTranscript, session,
                   nConnects, settled, capture, closeCalled, sent, nMsgs,
                   captured, inbound>>
    /\ UNCHANGED wizardVars

\* LiveSession.close() on handle s: idempotent, starts the closing handshake
\* of an open connection
closeHandle(s) ==
    /\ conn' = [conn EXCEPT ![s] = IF @ = "open" THEN "closing" ELSE @]
    /\ closeCalled' = [closeCalled EXCEPT ![s] = TRUE]

stopLiveSession ==
    /\ IF session # NoSession
       THEN closeHandle(session)
       ELSE UNCHANGED <<conn, closeCalled>>
    /\ isLiveActive' = FALSE
    /\ UNCHANGED <<liveTranscript, session,
                   nConnects, settled, capture, sent, nMsgs, captured, inbound>>

\* a voice button that is hidden in 'welcome' only
VoiceButtonAfterWelcome == step # "welcome"

\* the header's voice button: rendered outside 'welcome' and 'generating',
\* bound to stopLiveSession or to startLiveSession by isLiveActive
VoiceButtonRendered == step \notin {"welcome", "generating"}

clickVoiceStart ==
    /\ VoiceButtonRendered
    /\ ~isLiveActive
    /\ startLiveSession
    /\ UNCHANGED wizardVars

clickVoiceStop ==
    /\ VoiceButtonRendered
    /\ isLiveActive
    /\ stopLiveSession
    /\ UNCHANGED wizardVars

\* the X button of the live assistant panel, rendered while isLiveActive
clickPanelClose ==
    /\ isLiveActive
    /\ stopLiveSession
    /\ UNCHANGED wizardVars

\* ============================ wizard =================================

\* handleGenerate up to its `await`: the request carries the userData of
\* the render the handler was created in
handleGenerate(profile) ==
    /\ nGen < MaxGen
    /\ nGen' = nGen + 1
    /\ genPending' = genPending \cup {[id |-> nGen + 1, profile |-> profile]}
    /\ step' = "generating"
    /\ isGenerating' = TRUE

handleNext ==
    /\ UNCHANGED <<userData, results>>
    /\ IF step = "interests" /\ userData.interests # {}
       THEN /\ handleGenerate(userData)
            /\ UNCHANGED discoveryIndex
       ELSE /\ step' = CASE step = "welcome" -> "login"
                         [] step = "login" -> "dashboard"
                         [] step = "dashboard" -> "basic-info"
                         [] step = "basic-info" -> "interests"
                         [] step = "interests" -> "discovery"
                         [] OTHER -> step
            /\ UNCHANGED <<discoveryIndex, isGenerating, nGen, genPending>>

handleBack ==
    /\ UNCHANGED <<userData, results, isGenerating, nGen, genPending>>
    /\ IF step = "discovery" /\ discoveryIndex > 0
       THEN /\ discoveryIndex' = discoveryIndex - 1
            /\ UNCHANGED step
       ELSE /\ step' = CASE step = "login" -> "welcome"
                         [] step = "dashboard" -> "login"
                         [] step = "basic-info" -> "dashboard"
                         [] step = "interests" -> "basic-info"
                         [] step = "discovery" -> "interests"
                         [] step = "results" -> "interests"
                         [] OTHER -> step
            /\ UNCHANGED discoveryIndex

\* the request numbered id, when it is in flight
Pending(id) == {r \in genPending : r.id = id}

\* the awaited generateCareerRoadmap of request id resolves
generateResolved(id) ==
    /\ Pending(id) # {}
    /\ genPending' = genPending \ Pending(id)
    /\ results' = id
    /\ step' = "results"
    /\ isGenerating' = FALSE
    /\ UNCHANGED <<userData, discoveryIndex, nGen>>
    /\ UNCHANGED liveVars

\* the awaited generateCareerRoadmap of request id rejects (the request
\* itself or the JSON.parse of its response)
generateRejected(id) ==
    /\ Pending(id) # {}
    /\ genPending' = genPending \ Pending(id)
    /\ step' = "interests"
    /\ isGenerating' = FALSE
    /\ UNCHANGED <<userData, discoveryIndex, results, nGen>>
    /\ UNCHANGED liveVars

toggleInterest(i) ==
    /\ userData' = [userData EXCEPT !.interests =
                       IF i \in @ THEN @ \ {i} ELSE @ \cup {i}]
    /\ UNCHANGED <<step, discoveryIndex, results, isGenerating,
                   nGen, genPending>>

handleDiscoveryAnswer(answer) ==
    /\ userData' = [userData EXCEPT
                       !.discoveryAnswers[discoveryIndex + 1] = answer]
    /\ UNCHANGED results
    /\ IF discoveryIndex < NumQuestions - 1
       THEN /\ discoveryIndex' = discoveryIndex + 1
            /\ UNCHANGED <<step, isGenerating, nGen, genPending>>
       ELSE /\ handleGenerate(userData)
            /\ UNCHANGED discoveryIndex

\* buttons bound to handleNext, with the disabled attribute of each
clickNext ==
    /\ \/ step \in {"welcome", "login", "dashboard"}
       \/ /\ step = "basic-info"
          /\ userData.shortTermGoal # ""
          /\ userData.longTermGoal # ""
    /\ handleNext
    /\ UNCHANGED liveVars

clickBack ==
    /\ step \in {"basic-info", "interests", "discovery"}
    /\ handleBack
    /\ UNCHANGED liveVars

\* a logo click that also ends the voice session
clickLogoStopping ==
    /\ step' = "welcome"
    /\ UNCHANGED <<userData, discoveryIndex, results, isGenerating,
                   nGen, genPending>>
    /\ stopLiveSession

\* header logo: onClick={() => setStep('welcome')}
clickLogo ==
    /\ step' = "welcome"
    /\ UNCHANGED <<userData, discoveryIndex, results, isGenerating,
                   nGen, genPending>>
    /\ UNCHANGED liveVars

\* basic-info inputs
editGoals ==
    /\ step = "basic-info"
    /\ \E t \in GoalTexts :
          \/ userData' = [userData EXCEPT !.shortTermGoal = t]
          \/ userData' = [userData EXCEPT !.longTermGoal = t]
    /\ UNCHANGED <<step, discoveryIndex, results, isGenerating,
                   nGen, genPending>>
    /\ UNCHANGED liveVars

clickInterest ==
    /\ step = "interests"
    /\ \E i \in Interests : toggleInterest(i)
    /\ UNCHANGED liveVars

\* "Start Quiz": onClick={() => setStep('discovery')}
clickStartQuiz ==
    /\ step = "interests"
    /\ step' = "discovery"
    /\ UNCHANGED <<userData, discoveryIndex, results, isGenerating,
                   nGen, genPending>>
    /\ UNCHANGED liveVars

\* "Generate Roadmap": disabled while no interest is selected
clickGenerate ==
    /\ step = "interests"
    /\ userData.interests # {}
    /\ handleGenerate(userData)
    /\ UNCHANGED <<userData, discoveryIndex, results>>
    /\ UNCHANGED liveVars

clickOption ==
    /\ step = "discovery"
    /\ \E answer \in Options : handleDiscoveryAnswer(answer)
    /\ UNCHANGED liveVars

\* "Start Over": onClick={() => setStep('interests')}
clickStartOver ==
    /\ step = "results"
    /\ step' = "interests"
    /\ UNCHANGED <<userData, discoveryIndex, results, isGenerating,
                   nGen, genPending>>
    /\ UNCHANGED liveVars

\* ========================= specifications ============================

LiveNext ==
    \/ clickVoiceStart
    \/ clickVoiceStop
    \/ clickPanelClose
    \/ \E s \in Sessions :
          \/ connectRejected(s)
          \/ onopen(s)
          \/ connectResolved(s)
          \/ getUserMediaResolved(s)
          \/ getUserMediaRejected(s)
          \/ \E block \in Blocks : onaudioprocess(s, block)
          \/ onclose(s)
          \/ onerror(s)
          \/ \E parts \in Messages : onmessage(s, parts)

WizardNext ==
    \/ clickNext
    \/ clickBack
    \/ clickLogo
    \/ editGoals
    \/ clickInterest
    \/ clickStartQuiz
    \/ clickGenerate
    \/ clickOption
    \/ clickStartOver
    \/ \E id \in 1..MaxGen :
          \/ generateResolved(id)
          \/ generateRejected(id)

Next == LiveNext \/ WizardNext

Spec == Init /\ [][Next]_vars

TypeOK ==
    /\ step \in Steps
    /\ discoveryIndex \in 0..(NumQuestions - 1)
    /\ results \in 0..MaxGen
    /\ isGenerating \in BOOLEAN
    /\ isLiveActive \in BOOLEAN
    /\ session \in {NoSession} \cup Sessions
    /\ nConnects \in 0..MaxSessions
    /\ conn \in [Sessions -> ConnStates]
    /\ settled \in [Sessions -> BOOLEAN]
    /\ capture \in [Sessions -> CaptureStates]
    /\ closeCalled \in [Sessions -> BOOLEAN]
    /\ Len(sent) <= MaxTicks
    /\ Len(captured) <= MaxTicks
    /\ nMsgs \in 0..MaxMsgs
    /\ Len(inbound) <= MaxMsgs
    /\ nGen \in 0..MaxGen
\* the live voice session, with the steps in and out of 'welcome' that
\* show and hide its button; it explores LiveTicks silent blocks
LiveSpecNext ==
    \/ clickVoiceStart
    \/ clickVoiceStop
    \/ clickPanelClose
    \/ \E s \in Sessions :
          \/ connectRejected(s)
          \/ onopen(s)
          \/ connectResolved(s)
          \/ getUserMediaResolved(s)
          \/ getUserMediaRejected(s)
          \/ Len(captured) < LiveTicks /\ onaudioprocess(s, SilentBlock)
          \/ onclose(s)
          \/ onerror(s)
    \/ step = "welcome" /\ clickNext
    \/ clickLogo

LiveSpec == Init /\ [][LiveSpecNext]_vars

\* the wizard alone, exploring WizardGen roadmap requests
WizardSpecNext ==
    \/ clickNext
    \/ clickBack
    \/ clickLogo
    \/ editGoals
    \/ clickInterest
    \/ clickStartQuiz
    \/ nGen < WizardGen /\ clickGenerate
    \/ (discoveryIndex < NumQuestions - 1 \/ nGen < WizardGen) /\ clickOption
    \/ clickStartOver
    \/ \E id \in 1..MaxGen :
          \/ generateResolved(id)
          \/ generateRejected(id)

WizardSpec == Init /\ [][WizardSpecNext]_vars

\* roadmap requests: the path from 'welcome' to the Generate Roadmap
\* button, the logo and Start Over, and up to MaxGen requests that resolve
\* or reject in any order
GenNext ==
    \/ clickNext
    \/ clickLogo
    \/ editGoals
    \/ clickInterest
    \/ clickGenerate
    \/ clickStartOver
    \/ \E id \in 1..MaxGen :
          \/ generateResolved(id)
          \/ generateRejected(id)

GenSpec == Init /\ [][GenNext]_vars

\* the transcript: sessions that open, receive up to MaxMsgs messages with
\* one or two parts while capture ticks run, and are closed by the backend
TranscriptNext ==
    \/ step = "welcome" /\ clickNext
    \/ clickVoiceStart
    \/ \E s \in Sessions :
          \/ onopen(s)
          \/ connectResolved(s)
          \/ getUserMediaResolved(s)
          \/ Len(captured) < LiveTicks /\ onaudioprocess(s, SilentBlock)
          \/ onclose(s)
          \/ \E parts \in Messages \ {<< >>} : onmessage(s, parts)

TranscriptSpec == Init /\ [][TranscriptNext]_vars

\* the wizard with the voice toggle: every wizard action, and a first
\* session that is started, opens and is stopped
AppNext ==
    \/ WizardSpecNext
    \/ nConnects = 0 /\ clickVoiceStart
    \/ clickVoiceStop
    \/ clickPanelClose
    \/ \E s \in Sessions :
          \/ onopen(s)
          \/ connectResolved(s)

AppSpec == Init /\ [][AppNext]_vars

\* the capture pipeline: sessions that fail to connect, or open and capture
\* up to MaxTicks blocks, silent or at full scale, before and after the
\* connect promise resolves, while sessions are closed or fail
CaptureNext ==
    \/ step = "welcome" /\ clickNext
    \/ clickVoiceStart
    \/ \E s \in Sessions :
          \/ connectRejected(s)
          \/ onopen(s)
          \/ connectResolved(s)
          \/ getUserMediaResolved(s)
          \/ \E block \in {SilentBlock, <<SampleDen>>} : onaudioprocess(s, block)
          \/ onclose(s)
          \/ onerror(s)

CaptureSpec == Init /\ [][CaptureNext]_vars

\* the PCM conversion: sessions that open and capture up to LiveTicks
\* blocks of every explored sample value
PcmNext ==
    \/ step = "welcome" /\ clickNext
    \/ clickVoiceStart
    \/ \E s \in Sessions :
          \/ onopen(s)
          \/ connectResolved(s)
          \/ getUserMediaResolved(s)
          \/ \E block \in Blocks :
                Len(captured) < LiveTicks /\ onaudioprocess(s, block)

PcmSpec == Init /\ [][PcmNext]_vars

\* ============================ claims =================================

Terminal == {"connectFailed", "closed", "error"}
Issued == 1..nConnects
\* the React state of the voice controller of a fresh App
IdleController == <<FALSE, << >>, NoSession>>

\* C1 (as claimed): a startLiveSession call made while some session is
\* connecting or open is rejected: it changes nothing of the voice session
\* (no new connect, no new pipeline, status, handle, transcript unchanged).
C1_StartRejectedWhileBusy ==
    [][(startLiveSession /\ \E s \in Sessions : conn[s] \in {"connecting", "open"})
          => UNCHANGED liveVars]_vars

\* C2 (as claimed): whenever a session is terminal (closed, errored or
\* failed to connect), its microphone pipeline is not running and its
\* transport handle is closed.
C2_TerminalReleasesResources ==
    \A s \in Sessions :
        conn[s] \in Terminal =>
            /\ capture[s] # "running"
            /\ conn[s] \in {"connectFailed", "closed"} \/ closeCalled[s]

\* C3 (as claimed): once a session has left Active by an inbound closed or
\* error event, no capture tick sends a payload on it: every
\* sendRealtimeInput call is made on a session whose connection has not
\* been ended by the backend.
C3_NoSendAfterInboundEnd ==
    [][Len(sent') > Len(sent)
          => conn[sent'[Len(sent')].s] \notin {"closed", "error"}]_vars

\* C4 (as claimed, final state): once stop() has closed the handle of a
\* session and the close has been acknowledged, the capture pipeline of
\* that session has been released (it is no longer running).
C4_StopReleasesCapture ==
    \A s \in Sessions :
        (closeCalled[s] /\ conn[s] = "closed") => capture[s] # "running"

\* C5 (as claimed): a stopLiveSession call (made from the voice button or
\* the panel, hence with status on) leaves no capture pipeline running when
\* it returns, and on a stored handle that is already terminal it makes no
\* further call.
C5_StopSafeEverywhere ==
    [][(isLiveActive /\ stopLiveSession) =>
          /\ \A s \in Sessions : capture'[s] # "running"
          /\ (session # NoSession /\ conn[session] \in Terminal)
                => UNCHANGED <<conn, closeCalled>>]_vars

\* C6 (as claimed): at any time at most one capture pipeline is running and
\* at most one connection is open.
C6_AtMostOnePipelineAndHandle ==
    /\ Cardinality({s \in Sessions : capture[s] = "running"}) <= 1
    /\ Cardinality({s \in Sessions : conn[s] = "open"}) <= 1

\* C7 (as claimed): once every session begun so far is terminal, no new
\* session begins.
C7_TerminalIsFinal ==
    [][(nConnects > 0 /\ \A s \in Issued : conn[s] \in Terminal)
          => nConnects' = nConnects]_vars

\* C7 (amended): Closed and Failed are not final for the controller.  When
\* a session has closed, errored or failed to connect, and status is
\* inactive with the voice button rendered, a click calls startLiveSession
\* and a new connect is issued.
C7_RestartAfterTerminal ==
    \A s \in Sessions :
        (/\ conn[s] \in Terminal
         /\ ~isLiveActive
         /\ VoiceButtonRendered
         /\ nConnects < MaxSessions)
        => ENABLED (clickVoiceStart /\ conn'[nConnects + 1] = "connecting")

\* a later session is under way after an earlier one ended
C7_Witness ==
    \E s, t \in Sessions :
        /\ s < t
        /\ conn[s] \in Terminal
        /\ conn[t] \in {"connecting", "open"}

\* C8 (as claimed): after the connect of the first session failed, the
\* failure is recorded in the controller state, which therefore differs
\* from the state of a controller that was never started, and no capture
\* pipeline was started for it.
C8_ConnectFailureRecorded ==
    (nConnects = 1 /\ conn[1] = "connectFailed") =>
        /\ <<isLiveActive, liveTranscript, session>> # IdleController
        /\ capture[1] = "none"

\* C9 (as claimed): when the only session ended by a connect failure, an
\* inbound error or a capture failure, the controller state reports
\* neither Active nor the inactive, handle-less state of Idle and Closed.
C9_FailureDistinguishable ==
    (/\ nConnects = 1
     /\ conn[1] \in {"connectFailed", "error"} \/ capture[1] = "denied")
    => /\ ~isLiveActive
       /\ session # NoSession

\* C10 (as claimed): once getUserMedia was rejected for a session, its
\* connection is not left open, status does not keep reporting it active,
\* and no frame is sent for it.
C10_CaptureFailureEndsSession ==
    \A s \in Sessions :
        capture[s] = "denied" =>
            /\ conn[s] # "open"
            /\ nConnects = 1 => ~isLiveActive
            /\ \A i \in 1..Len(sent) : sent[i].s # s

\* some connection has opened: onopen has run
Opened == \E s \in Sessions : conn[s] \in {"open", "closing", "closed", "error"}

\* the texts of all the parts of the messages, in order
RECURSIVE AllTexts(_)
AllTexts(msgs) ==
    IF msgs = << >> THEN << >>
    ELSE SelectSeq(Head(msgs), LAMBDA t : t # "") \o AllTexts(Tail(msgs))

\* for each text, in order: a newline and that text
RECURSIVE Entries(_)
Entries(texts) ==
    IF texts = << >> THEN << >>
    ELSE <<Newline, Head(texts)>> \o Entries(Tail(texts))

\* no message carries a text after its first part
SinglePartTexts(msgs) ==
    \A i \in 1..Len(msgs) : \A j \in 2..Len(msgs[i]) : msgs[i][j] = ""

C20_EveryPartAppended ==
    \A i \in 1..Len(inbound) : \A j \in 1..Len(inbound[i]) :
        inbound[i][j] # "" =>
            \E k \in 1..Len(liveTranscript) : liveTranscript[k] = inbound[i][j]

\* C12 (as claimed): the sends are exactly the captured frames, one send
\* per capture tick and in capture order: the i-th send is made on the
\* session of the i-th tick, carries the encoding of its block, and is the
\* frame numbered by the count of earlier ticks of that session.
C12_FramesSentInCaptureOrder ==
    /\ Len(sent) = Len(captured)
    /\ \A i \in 1..Len(sent) :
          /\ sent[i].s = captured[i].s
          /\ sent[i].data = Btoa(Uint8View(PcmData(captured[i].block)))
          /\ sent[i].n = Cardinality({j \in 1..(i - 1) :
                                         captured[j].s = captured[i].s})

\* the capture tick whose frame the i-th send carries: the tick of that
\* session with that many earlier ticks of the session
TickOf(i) ==
    CHOOSE j \in 1..Len(captured) :
        /\ captured[j].s = sent[i].s
        /\ Cardinality({k \in 1..(j - 1) : captured[k].s = sent[i].s})
              = sent[i].n

\* C16: every stored PCM value lies in -32768..32767 and is the clamped
\* sample scaled by 0x7FFF, without wraparound: a sample of 1.0 or above
\* gives 32767, a sample of -1.0 or below gives -32767, and equal samples
\* always give equal values.
C16_PcmClampedAndInRange ==
    /\ \A i \in 1..Len(sent) : \A j \in 1..Len(sent[i].pcm) :
          LET k == captured[TickOf(i)].block[j]
              v == sent[i].pcm[j]
          IN  /\ v \in (0 - 32768)..32767
              /\ k >= SampleDen => v = PcmScale
              /\ k <= 0 - SampleDen => v = 0 - PcmScale
              /\ (k >= 0 - SampleDen /\ k <= SampleDen)
                    => v = TruncDiv(k * PcmScale, SampleDen)
    /\ \A i1, i2 \in 1..Len(sent) :
          captured[TickOf(i1)].block = captured[TickOf(i2)].block
              => sent[i1].pcm = sent[i2].pcm

\* a sample above 1.0 was captured and stored as 32767
C16_Witness ==
    \E i \in 1..Len(sent) :
        /\ captured[TickOf(i)].block[1] > SampleDen
        /\ sent[i].pcm[1] = PcmScale

\* C13 (as claimed): nothing is retried.  A connect is issued only by a
\* click on the voice button that calls startLiveSession, one connect per
\* call; a session that failed to connect, closed or got an error never
\* connects again; the microphone is requested only by the onopen of a
\* connecting session; what was sent stays as sent and no frame is sent
\* twice; and no send is made on a session after its connect failure or
\* its inbound error event.
C13_NoAutomaticRetry ==
    [][/\ nConnects' # nConnects => clickVoiceStart
       /\ \A s \in Sessions :
             /\ conn[s] \in Terminal => conn'[s] = conn[s]
             /\ (capture'[s] = "requested" /\ capture[s] # "requested")
                   => (conn[s] = "connecting" /\ conn'[s] = "open")
       /\ Len(sent') \in {Len(sent), Len(sent) + 1}
       /\ \A i \in 1..Len(sent) :
             /\ sent'[i] = sent[i]
             /\ Len(sent') > Len(sent) =>
                   <<sent[i].s, sent[i].n>>
                     # <<sent'[Len(sent')].s, sent'[Len(sent')].n>>
       /\ Len(sent') > Len(sent) =>
             conn[sent'[Len(sent')].s] \notin {"connectFailed", "error"}
      ]_vars

\* C14: while the step is 'welcome' or 'generating' the click that calls
\* startLiveSession (the only action that does) is not enabled.
C14_StartGatedByStep ==
    step \in {"welcome", "generating"} => ~ENABLED clickVoiceStart

\* the wizard is generating, no session is active and a connect could
\* still be issued, after an earlier session was started and stopped
C14_Witness ==
    /\ step = "generating"
    /\ ~isLiveActive
    /\ nConnects = 1
    /\ closeCalled[1]
    /\ nConnects < MaxSessions

\* C15: a step that changes the wizard's state (step, question index,
\* results, generating flag, profile, requests) leaves status, session
\* handle and transcript as they were, and a step that issues a connect or
\* calls close leaves the wizard's state as it was.
C15_WizardLeavesSessionAlone ==
    [][/\ wizardVars' # wizardVars
            => /\ isLiveActive' = isLiveActive
               /\ session' = session
               /\ liveTranscript' = liveTranscript
       /\ (nConnects' # nConnects \/ closeCalled' # closeCalled)
            => wizardVars' = wizardVars
      ]_vars

\* a roadmap was generated and the logo then clicked while the session
\* stayed active with its handle and banner
C15_Witness ==
    /\ step = "welcome"
    /\ results # 0
    /\ isLiveActive
    /\ session = 1
    /\ liveTranscript = <<ConnectedBanner>>

\* C17 (as claimed): when a roadmap request is rejected, results are as
\* before, isGenerating is false, the step is not 'generating', and the
\* host state carries the error: it is not the state of the 'interests'
\* step with the same profile, question index and results and no failure.
C17_GenerationFailureReported ==
    [][\A id \in 1..MaxGen :
          generateRejected(id) =>
             /\ results' = results
             /\ ~isGenerating'
             /\ step' # "generating"
             /\ <<step', userData', discoveryIndex', results', isGenerating'>>
                   # <<"interests", userData, discoveryIndex, results, FALSE>>
      ]_vars

\* C18 (as claimed): a stopLiveSession call that closes the stored handle
\* leaves the capture pipeline of that session stopped, and no capture
\* tick sends a payload on a session whose close() has been called.
C18_CaptureStoppedBeforeClose ==
    [][/\ (isLiveActive /\ stopLiveSession /\ session # NoSession)
             => capture'[session] # "running"
       /\ Len(sent') > Len(sent) => ~closeCalled[sent'[Len(sent')].s]
      ]_vars

\* the controller state a host can observe, from isLiveActive, the stored
\* handle and a connect in flight
ControllerState ==
    IF isLiveActive THEN "Active"
    ELSE IF \E s \in Sessions : conn[s] = "connecting" THEN "Connecting"
    ELSE IF session # NoSession THEN "Closing"
    ELSE "Idle"

\* the transitions of the specified state machine
SpecTransitions ==
    {<<"Idle", "Connecting">>, <<"Connecting", "Active">>,
     <<"Connecting", "Failed">>, <<"Active", "Closing">>,
     <<"Active", "Failed">>, <<"Active", "Closed">>,
     <<"Closing", "Closed">>}

\* C19 (as claimed): every step either leaves the observable controller
\* state as it is or changes it along a transition of the specified state
\* machine.
C19_RefinesStateMachine ==
    [][\/ ControllerState' = ControllerState
       \/ <<ControllerState, ControllerState'>> \in SpecTransitions]_vars

\* C21: the payload of a capture tick is a function of its block alone.
\* Each send carries the encoding of the block of its own tick under the
\* descriptor 'audio/pcm;rate=16000'; it equals, data and descriptor, every
\* earlier payload made from an identical block, whatever was encoded in
\* between; and the tick changes nothing of the controller (status,
\* transcript, handle, connections, pipelines) or of the wizard.
C21_EncodingPureAndStateless ==
    [][Len(sent') > Len(sent) =>
          LET new == sent'[Len(sent')]
              blk == captured'[Len(captured')].block
          IN  /\ new.mimeType = "audio/pcm;rate=16000"
              /\ new.data = Btoa(Uint8View(PcmData(blk)))
              /\ \A i \in 1..Len(sent) :
                    captured[TickOf(i)].block = blk =>
                        /\ sent[i].data = new.data
                        /\ sent[i].mimeType = new.mimeType
              /\ UNCHANGED <<isLiveActive, liveTranscript, session,
                             nConnects, conn, settled, capture, closeCalled>>
              /\ UNCHANGED wizardVars
      ]_vars

\* two ticks with identical non-silent blocks were encoded, one after the
\* other, into identical payloads
C21_Witness ==
    /\ Len(sent) = 2
    /\ Len(captured) = 2
    /\ captured[1].block = <<SampleDen>>
    /\ captured[2].block = <<SampleDen>>
    /\ sent[1].data = sent[2].data
    /\ sent[1].mimeType = sent[2].mimeType

\* C22 (as claimed): after stop() closed an earlier session, its onclose
\* or onerror firing while a later session is open leaves the status as
\* it is and leaves the stored handle of the later session in place.
C22_LateTerminalEventHarmless ==
    [][\A s, t \in Sessions :
          (/\ s < t
           /\ closeCalled[s]
           /\ conn[t] = "open"
           /\ onclose(s) \/ onerror(s))
          => /\ isLiveActive' = isLiveActive
             /\ session = t => session' = t
      ]_vars

\* C23 (as claimed): while status reports active the stored handle is the
\* open connection, and while status reports inactive no connection is
\* open.
C23_ActiveHandleIsOpenConnection ==
    /\ isLiveActive => (session # NoSession /\ conn[session] = "open")
    /\ ~isLiveActive => \A s \in Sessions : conn[s] # "open"

\* C24 (as claimed): the request issued by answering the last discovery
\* question carries the profile with that answer recorded: the answers to
\* all the questions are present and the profile is the userData the
\* answer produced.
C24_ProfileHasFinalAnswer ==
    [][(clickOption /\ discoveryIndex = NumQuestions - 1) =>
          \A r \in genPending' \ genPending :
             /\ \A q \in Questions : r.profile.discoveryAnswers[q] # NoAnswer
             /\ r.profile = userData'
      ]_vars

\* C25 (as claimed): the step is 'generating' exactly when isGenerating is
\* true, and isGenerating is true exactly when a request is in flight.
C25_GeneratingIffInFlight ==
    /\ (step = "generating") = isGenerating
    /\ isGenerating = (genPending # {})

\* C26 (as claimed): at most one request is in flight, and in the
\* 'results' step the results are those of the request issued last.
C26_OneRequestLatestResults ==
    /\ Cardinality(genPending) <= 1
    /\ step = "results" => results = nGen
====
